---- MODULE Spec2Model ----
(***************************************************************************)
(* Model of gh_awesome_sorter.py: the awesome-list harvester.              *)
(*                                                                         *)
(* Two entry points are modelled:                                          *)
(*   main -> get_sorted_awesome_list_repos -> get_repos_scraped            *)
(*           (sequential generator over a persistent CachedSession)        *)
(*   get_repos_async (asyncio.gather over one get_repo_async per name)     *)
(*                                                                         *)
(* Repository full names are modelled as the integers 1..NumIds; the       *)
(* integer order stands for the lexical order of the names.                *)
(***************************************************************************)
EXTENDS Integers, Sequences, FiniteSets, TLC

\* ---------------------------------------------------------------- bounds
NumIds == 2
MaxStars == 1
MaxRetries == 1
MaxRuns == 1

Ids == 1..NumIds
Stars == 0..MaxStars

\* A cached page that has no element with id "repo-stars-counter-star".
NoCounter == -1

VARIABLES
    entry,       \* which entry point runs: "idle", "main", "get_repos_async"
    pc,          \* position of the entry point
    runs,        \* number of earlier process runs (the cache survives them)
    repoStatus,  \* status of the GitHub API response in get_repo (0: none yet)
    readmeStatus,\* status of the raw README response in get_readme (0: none yet)
    full_names,  \* the list handed to the orchestrator
    idx,         \* get_repos_scraped: number of names the for loop has taken
    cur,         \* get_repos_scraped: full_name of the running get_repo_scraped (0: none)
    fpc,         \* get_repo_scraped: "idle", "get", "await", "backoff"
    limited,     \* 429 responses seen by the running get_repo_scraped call chain
    waits,       \* sleep(60) calls completed by the running call chain
    inflight,    \* full names whose fetch has started and not yet returned or raised
    reqs,        \* network requests issued per full name in this run
    outcome,     \* last response class observed per full name in this run
    cache,       \* CachedSession store: set of <<full name (URL), cached payload>>
    results,     \* RepoScraped objects collected so far, in collection order
    error,       \* exception that left the entry point ("none": no exception)
    repos,       \* list returned by get_sorted_awesome_list_repos
    printed,     \* lines printed by main (repos[:count])
    tasks,       \* get_repos_async: state of the task of each full name
    tret         \* get_repos_async: stars returned by each task (-1: none)

vars == <<entry, pc, runs, repoStatus, readmeStatus, full_names, idx, cur, fpc,
          limited, waits, inflight, reqs, outcome, cache, results, error,
          repos, printed, tasks, tret>>

\* ---------------------------------------------------------------- helpers
Range(s) == {s[k] : k \in 1..Len(s)}

Take(s, n) == SubSeq(s, 1, IF n < Len(s) THEN n ELSE Len(s))

\* list(set(names)): the unique names in an arbitrary order
Orderings(S) ==
    {f \in [1..Cardinality(S) -> S] : \A a, b \in 1..Cardinality(S) : a # b => f[a] # f[b]}

RepoScraped(name, stars) == [full_name |-> name, stars |-> stars]

\* sorted(repos, key=lambda r: r.stars, reverse=True): a stable sort, elements
\* with equal stars keep their input order.
InsertByStars(s, r) ==
    LET k == Cardinality({j \in 1..Len(s) : s[j].stars >= r.stars})
    IN  SubSeq(s, 1, k) \o <<r>> \o SubSeq(s, k + 1, Len(s))

RECURSIVE SortedByStars(_)
SortedByStars(s) ==
    IF s = <<>> THEN <<>>
    ELSE InsertByStars(SortedByStars(SubSeq(s, 1, Len(s) - 1)), s[Len(s)])

\* ---------------------------------------------------------------- initial state
FreshRun ==
    /\ entry = "idle"
    /\ pc = "start"
    /\ repoStatus = 0
    /\ readmeStatus = 0
    /\ full_names = <<>>
    /\ idx = 0
    /\ cur = 0
    /\ fpc = "idle"
    /\ limited = 0
    /\ waits = 0
    /\ inflight = {}
    /\ reqs = [i \in Ids |-> 0]
    /\ outcome = [i \in Ids |-> "none"]
    /\ results = <<>>
    /\ error = "none"
    /\ repos = <<>>
    /\ printed = <<>>
    /\ tasks = [i \in Ids |-> "none"]
    /\ tret = [i \in Ids |-> -1]

Init ==
    /\ FreshRun
    /\ runs = 0
    /\ cache = {}

\* ---------------------------------------------------------------- CachedSession
\* CachedSession("github_repos_cache", backend="filesystem"): responses are keyed
\* by request URL, never expire, and only 200 responses are stored.
CacheHas(name) == \E e \in cache : e[1] = name

CachePayload(name) == (CHOOSE e \in cache : e[1] = name)[2]

CachePut(name, payload) == IF CacheHas(name) THEN cache ELSE cache \cup {<<name, payload>>}

\* A plain requests.Session: every get goes to the network.
SessionHit_NoCache(name) == FALSE

\* session.get(url) answers from the store when the URL is in it.
SessionHit(name) == CacheHas(name)

\* ---------------------------------------------------------------- get_repo, get_readme
\* get_repo: the exception leaving it for a response status ("none": it returns)
GetRepoRaises(status) ==
    IF status = 404 THEN "RepositoryNotFoundError"
    ELSE IF status # 200 THEN "HTTPError"
    ELSE "none"

\* A missing README read as an empty one.
GetReadmeRaises_Swallow404(status) ==
    IF status \notin {200, 404} THEN "HTTPError" ELSE "none"

\* get_readme: the exception leaving it for a response status
GetReadmeRaises(status) ==
    IF status = 404 THEN "AwesomeReadmeNotFound"
    ELSE IF status # 200 THEN "HTTPError"
    ELSE "none"

Abort(e) ==
    /\ pc' = "aborted"
    /\ error' = e

\* main calls get_sorted_awesome_list_repos, which first calls get_repo.
GetRepo(status) ==
    /\ entry = "idle"
    /\ pc = "start"
    /\ entry' = "main"
    /\ repoStatus' = status
    /\ IF GetRepoRaises(status) # "none"
       THEN Abort(GetRepoRaises(status))
       ELSE pc' = "get_readme" /\ error' = error
    /\ UNCHANGED <<runs, readmeStatus, full_names, idx, cur, fpc, limited, waits,
                   inflight, reqs, outcome, cache, results, repos, printed, tasks, tret>>

\* get_readme, then get_repo_fullnames, list(set(...)) and the [:process_count]
\* slice; get_repos_scraped(...) only creates the generator.
GetReadme(status, names, process_count) ==
    /\ entry = "main"
    /\ pc = "get_readme"
    /\ readmeStatus' = status
    /\ IF GetReadmeRaises(status) # "none"
       THEN Abort(GetReadmeRaises(status)) /\ full_names' = full_names
       ELSE /\ pc' = "fetching"
            /\ error' = error
            /\ full_names' = Take(names, process_count)
    /\ UNCHANGED <<entry, runs, repoStatus, idx, cur, fpc, limited, waits,
                   inflight, reqs, outcome, cache, results, repos, printed, tasks, tret>>

\* ---------------------------------------------------------------- get_repos_scraped
\* A loop that submits the next fetch without waiting for the previous one.
LoopMayAdvance_NoWait == TRUE

\* The for loop calls get_repo_scraped for the next name only after the previous
\* call has returned or raised.
LoopMayAdvance == fpc = "idle"

\* except HTTPError in get_repo_scraped: what is done for a response status
FetcherOnHTTPError(status) == IF status = 429 THEN "retry" ELSE "raise"

\* except HTTPError: continue, whatever the status.
OrchestratorOnHTTPError_SkipAll(status) == "continue"

\* except HTTPError in get_repos_scraped: what is done for a response status
OrchestratorOnHTTPError(status) == IF status = 404 THEN "continue" ELSE "raise"

\* for full_name in full_names: ... get_repo_scraped(session, full_name)
ScrapedCall ==
    /\ entry = "main"
    /\ pc = "fetching"
    /\ LoopMayAdvance
    /\ idx < Len(full_names)
    /\ idx' = idx + 1
    /\ cur' = full_names[idx + 1]
    /\ fpc' = "get"
    /\ limited' = 0
    /\ waits' = 0
    /\ inflight' = inflight \cup {full_names[idx + 1]}
    /\ UNCHANGED <<entry, pc, runs, repoStatus, readmeStatus, full_names, reqs,
                   outcome, cache, results, error, repos, printed, tasks, tret>>

\* get_repo_scraped returns RepoScraped; the generator yields it to sorted().
ScrapedYield(stars) ==
    /\ results' = Append(results, RepoScraped(cur, stars))
    /\ fpc' = "idle"
    /\ inflight' = inflight \ {cur}
    /\ UNCHANGED <<pc, error, idx>>

\* An exception leaves get_repos_scraped, sorted() and main.
ScrapedRaise(e) ==
    /\ Abort(e)
    /\ fpc' = "idle"
    /\ inflight' = inflight \ {cur}
    /\ UNCHANGED <<results, idx>>

\* except HTTPError ... continue: the name is skipped, nothing is yielded for it.
ScrapedContinue ==
    /\ fpc' = "idle"
    /\ inflight' = inflight \ {cur}
    /\ UNCHANGED <<results, pc, error, idx>>

\* Parsing the page: int(starsElement["title"]) or TypeError when the element is missing.
ScrapedParse(payload) ==
    IF payload = NoCounter THEN ScrapedRaise("TypeError") ELSE ScrapedYield(payload)

\* session.get(url) on a cached URL: the stored 200 response, no network request.
ScrapedCacheHit ==
    /\ entry = "main"
    /\ pc = "fetching"
    /\ fpc = "get"
    /\ SessionHit(cur)
    /\ outcome' = [outcome EXCEPT ![cur] = "hit"]
    /\ ScrapedParse(CachePayload(cur))
    /\ UNCHANGED <<entry, runs, repoStatus, readmeStatus, full_names, cur, limited,
                   waits, reqs, cache, repos, printed, tasks, tret>>

\* session.get(url) on a URL that is not cached: the request goes to the network.
ScrapedSend ==
    /\ entry = "main"
    /\ pc = "fetching"
    /\ fpc = "get"
    /\ ~SessionHit(cur)
    /\ reqs' = [reqs EXCEPT ![cur] = @ + 1]
    /\ fpc' = "await"
    /\ UNCHANGED <<entry, pc, runs, repoStatus, readmeStatus, full_names, idx, cur,
                   limited, waits, inflight, outcome, cache, results, error, repos,
                   printed, tasks, tret>>

\* A 200 response: it is stored, then parsed.
ScrapedRecv200(payload) ==
    /\ entry = "main"
    /\ pc = "fetching"
    /\ fpc = "await"
    /\ outcome' = [outcome EXCEPT ![cur] = IF payload = NoCounter THEN "nocounter" ELSE "ok"]
    /\ cache' = CachePut(cur, payload)
    /\ ScrapedParse(payload)
    /\ UNCHANGED <<entry, runs, repoStatus, readmeStatus, full_names, cur, limited,
                   waits, reqs, repos, printed, tasks, tret>>

\* A 4xx/5xx response: raise_for_status raises HTTPError.
ScrapedRecvHTTPError(status) ==
    /\ entry = "main"
    /\ pc = "fetching"
    /\ fpc = "await"
    /\ status = 429 => limited < MaxRetries
    /\ outcome' = [outcome EXCEPT ![cur] =
                     IF status = 404 THEN "404" ELSE IF status = 429 THEN "429" ELSE "500"]
    /\ IF FetcherOnHTTPError(status) = "retry"
       THEN /\ fpc' = "backoff"
            /\ limited' = limited + 1
            /\ UNCHANGED <<pc, error, results, idx, inflight>>
       ELSE /\ limited' = limited
            /\ IF OrchestratorOnHTTPError(status) = "continue"
               THEN ScrapedContinue
               ELSE ScrapedRaise(IF status = 404 THEN "HTTPError404"
                                 ELSE IF status = 429 THEN "HTTPError429"
                                 ELSE "HTTPError500")
    /\ UNCHANGED <<entry, runs, repoStatus, readmeStatus, full_names, cur, waits, reqs,
                   cache, repos, printed, tasks, tret>>

\* session.get raises a requests ConnectionError, which is not an HTTPError:
\*   "neterr"   the connection fails
\*   "timeout"  the host does not answer and the operating system gives up on the
\*              connection (no timeout= is passed, so requests itself never gives
\*              up: the call may also never return, i.e. stay in "await")
ScrapedRecvException(kind) ==
    /\ entry = "main"
    /\ pc = "fetching"
    /\ fpc = "await"
    /\ outcome' = [outcome EXCEPT ![cur] = kind]
    /\ ScrapedRaise("ConnectionError")
    /\ UNCHANGED <<entry, runs, repoStatus, readmeStatus, full_names, cur, limited,
                   waits, reqs, cache, repos, printed, tasks, tret>>

\* sleep(60), then return get_repo_scraped(session, full_name)
ScrapedSleep ==
    /\ entry = "main"
    /\ pc = "fetching"
    /\ fpc = "backoff"
    /\ waits' = waits + 1
    /\ fpc' = "get"
    /\ UNCHANGED <<entry, pc, runs, repoStatus, readmeStatus, full_names, idx, cur,
                   limited, inflight, reqs, outcome, cache, results, error, repos,
                   printed, tasks, tret>>

\* The generator is exhausted: sorted(...) returns and main prints repos[:count].
SortAndPrint(count) ==
    /\ entry = "main"
    /\ pc = "fetching"
    /\ fpc = "idle"
    /\ idx = Len(full_names)
    /\ repos' = SortedByStars(results)
    /\ printed' = Take(SortedByStars(results), count)
    /\ pc' = "done"
    /\ UNCHANGED <<entry, runs, repoStatus, readmeStatus, full_names, idx, cur, fpc,
                   limited, waits, inflight, reqs, outcome, cache, results, error,
                   tasks, tret>>

\* ---------------------------------------------------------------- get_repos_async
\* get_repos_async(full_names): the session is opened and asyncio.gather wraps one
\* get_repo_async coroutine per name in a task.  It uses a plain ClientSession and
\* never touches the filesystem cache, so it is modelled from a first run only.
AsyncGather(names) ==
    /\ entry = "idle"
    /\ pc = "start"
    /\ runs = 0
    /\ entry' = "get_repos_async"
    /\ pc' = "gathering"
    /\ full_names' = names
    /\ tasks' = [i \in Ids |-> IF i \in Range(names) THEN "pending" ELSE "none"]
    /\ UNCHANGED <<runs, repoStatus, readmeStatus, idx, cur, fpc, limited, waits,
                   inflight, reqs, outcome, cache, results, error, repos, printed, tret>>

\* The event loop runs each task up to its first await, in list order:
\* session.get(url) issues the request; TCPConnector(limit=None) never makes it wait.
AsyncStart ==
    /\ entry = "get_repos_async"
    /\ \E k \in 1..Len(full_names) :
        /\ tasks[full_names[k]] = "pending"
        /\ \A j \in 1..(k - 1) : tasks[full_names[j]] # "pending"
        /\ tasks' = [tasks EXCEPT ![full_names[k]] = "inflight"]
        /\ reqs' = [reqs EXCEPT ![full_names[k]] = @ + 1]
        /\ inflight' = inflight \cup {full_names[k]}
    /\ UNCHANGED <<entry, pc, runs, repoStatus, readmeStatus, full_names, idx, cur, fpc,
                   limited, waits, outcome, cache, results, error, repos, printed, tret>>

\* get_repo_async: what is done for a response class
\*   "ok"        int(title) parsed, RepoScraped returned
\*   "timeout"   asyncio.TimeoutError (ClientTimeout(total=100)): stars=0 returned
\*   "404"       ClientResponseError 404: stars=0 returned
\*   "429"       ClientResponseError 429: pass, then raise e
\*   others      raised
AsyncOnResponse(kind) ==
    IF kind \in {"ok", "timeout", "404"} THEN "return" ELSE "raise"

AsyncError(kind) ==
    IF kind = "429" THEN "HTTPError429"
    ELSE IF kind = "500" THEN "HTTPError500"
    ELSE IF kind = "nocounter" THEN "TypeError"
    ELSE "ConnectionError"

\* Every task has been started before the loop polls for responses.
AllStarted == \A i \in Range(full_names) : tasks[i] # "pending"

\* A task's request completes and get_repo_async returns a RepoScraped.
AsyncReturn(i, kind, stars) ==
    /\ entry = "get_repos_async"
    /\ AllStarted
    /\ tasks[i] = "inflight"
    /\ AsyncOnResponse(kind) = "return"
    /\ kind # "ok" => stars = 0
    /\ outcome' = [outcome EXCEPT ![i] = kind]
    /\ tasks' = [tasks EXCEPT ![i] = "returned"]
    /\ tret' = [tret EXCEPT ![i] = stars]
    /\ inflight' = inflight \ {i}
    /\ UNCHANGED <<entry, pc, runs, repoStatus, readmeStatus, full_names, idx, cur, fpc,
                   limited, waits, reqs, cache, results, error, repos, printed>>

\* A task's get_repo_async raises.  gather (return_exceptions=False) propagates
\* the first exception to get_repos_async at once and cancels nothing: the
\* other tasks stay scheduled.  A later exception is never retrieved.
AsyncRaise(i, kind) ==
    /\ entry = "get_repos_async"
    /\ AllStarted
    /\ tasks[i] = "inflight"
    /\ AsyncOnResponse(kind) = "raise"
    /\ outcome' = [outcome EXCEPT ![i] = kind]
    /\ tasks' = [tasks EXCEPT ![i] = "raised"]
    /\ inflight' = inflight \ {i}
    /\ IF pc = "gathering"
       THEN Abort(AsyncError(kind))
       ELSE UNCHANGED <<pc, error>>
    /\ UNCHANGED <<entry, runs, repoStatus, readmeStatus, full_names, idx, cur, fpc,
                   limited, waits, reqs, cache, results, repos, printed, tret>>

\* Every task has returned: gather returns the results in list order.
AsyncGatherReturn ==
    /\ entry = "get_repos_async"
    /\ pc = "gathering"
    /\ \A i \in Range(full_names) : tasks[i] = "returned"
    /\ results' = [k \in 1..Len(full_names) |->
                     RepoScraped(full_names[k], tret[full_names[k]])]
    /\ pc' = "done"
    /\ UNCHANGED <<entry, runs, repoStatus, readmeStatus, full_names, idx, cur, fpc,
                   limited, waits, inflight, reqs, outcome, cache, error, repos,
                   printed, tasks, tret>>

\* ---------------------------------------------------------------- a later run
\* The script's process has ended (main returned or raised); the script is
\* started again.  Only the filesystem cache survives.
NewRun ==
    /\ entry = "main"
    /\ pc \in {"done", "aborted"}
    /\ runs < MaxRuns
    /\ runs' = runs + 1
    /\ entry' = "idle"
    /\ pc' = "start"
    /\ repoStatus' = 0
    /\ readmeStatus' = 0
    /\ full_names' = <<>>
    /\ idx' = 0
    /\ cur' = 0
    /\ fpc' = "idle"
    /\ limited' = 0
    /\ waits' = 0
    /\ inflight' = {}
    /\ reqs' = [i \in Ids |-> 0]
    /\ outcome' = [i \in Ids |-> "none"]
    /\ results' = <<>>
    /\ error' = "none"
    /\ repos' = <<>>
    /\ printed' = <<>>
    /\ tasks' = [i \in Ids |-> "none"]
    /\ tret' = [i \in Ids |-> -1]
    /\ UNCHANGED cache

\* ---------------------------------------------------------------- specification
NameLists == UNION {Orderings(S) : S \in SUBSET Ids}

SourceStatuses == {200, 404, 500}

Next ==
    \/ \E status \in SourceStatuses : GetRepo(status)
    \/ \E status \in SourceStatuses, names \in NameLists, process_count \in 0..NumIds :
         GetReadme(status, names, process_count)
    \/ ScrapedCall
    \/ ScrapedCacheHit
    \/ ScrapedSend
    \/ \E payload \in Stars \cup {NoCounter} : ScrapedRecv200(payload)
    \/ \E status \in {404, 429, 500} : ScrapedRecvHTTPError(status)
    \/ \E kind \in {"neterr", "timeout"} : ScrapedRecvException(kind)
    \/ ScrapedSleep
    \/ \E count \in 0..NumIds : SortAndPrint(count)
    \/ \E names \in NameLists : AsyncGather(names)
    \/ AsyncStart
    \/ \E i \in Ids, kind \in {"ok", "timeout", "404"}, stars \in Stars :
         AsyncReturn(i, kind, stars)
    \/ \E i \in Ids, kind \in {"429", "500", "nocounter", "neterr"} : AsyncRaise(i, kind)
    \/ AsyncGatherReturn
    \/ NewRun

Spec == Init /\ [][Next]_vars

\* ---------------------------------------------------------------- properties
Collected == {results[k].full_name : k \in 1..Len(results)}

FatalOutcomes == {"500", "neterr", "nocounter"}

\* C1: when the harvest completes, the collected results hold exactly one
\* result per submitted identifier.
C1_OneResultPerIdentifier ==
    pc = "done" =>
        /\ Len(results) = Len(full_names)
        /\ \A i \in Range(full_names) :
             Cardinality({k \in 1..Len(results) : results[k].full_name = i}) = 1

\* C2: an identifier answered 404 is requested once, does not abort the harvest,
\* and is present in the ranked output with metric 0, ranked last.
C2_NotFoundRankedLast ==
    \A i \in Ids :
        (entry = "main" /\ outcome[i] = "404") =>
            /\ reqs[i] = limited + 1 \/ cur # i
            /\ pc # "aborted"
            /\ pc = "done" =>
                 \E k \in 1..Len(repos) :
                    /\ repos[k] = RepoScraped(i, 0)
                    /\ \A j \in k..Len(repos) : repos[j].stars = 0

\* C3: every 429 response is followed by exactly one backoff wait before the next
\* request, and a 429 never reaches the fetcher's caller as an error, in
\* get_repo_scraped and in get_repo_async.
C3_RateLimitRetriedNeverSurfaced ==
    /\ fpc = "backoff" => limited = waits + 1
    /\ fpc \in {"get", "await"} => limited = waits /\ (fpc = "await" => reqs[cur] = waits + 1)
    /\ error # "HTTPError429"
    /\ \A i \in Ids : outcome[i] = "429" => tasks[i] # "raised"

\* C4: an attempt that times out yields a result with metric 0 for its
\* identifier and does not abort the harvest, in get_repo_scraped and in
\* get_repo_async.
C4_TimeoutYieldsZero ==
    \A i \in Ids :
        outcome[i] = "timeout" =>
            /\ entry = "main" => pc # "aborted" /\ RepoScraped(i, 0) \in Range(results)
            /\ entry = "get_repos_async" => tasks[i] = "returned" /\ tret[i] = 0

\* C5: a fetch that fails other than by not-found, rate limit or timeout is not
\* retried and yields no result; the harvest is aborted with that error, no
\* later identifier is requested and no ranked output is produced.
C5_FatalFetchAbortsHarvest ==
    \A i \in Ids :
        (\/ outcome[i] \in FatalOutcomes
         \/ outcome[i] = "hit" /\ CacheHas(i) /\ CachePayload(i) = NoCounter) =>
            /\ pc = "aborted"
            /\ error \in {"HTTPError500", "ConnectionError", "TypeError",
                          "HTTPError429"}
            /\ repos = <<>>
            /\ printed = <<>>
            /\ entry = "main" =>
                 /\ i = cur
                 /\ fpc = "idle"
                 /\ error # "HTTPError429"
                 /\ i \notin Collected
                 /\ reqs[i] <= limited + 1
                 /\ waits = limited
                 /\ \A k \in (idx + 1)..Len(full_names) :
                      reqs[full_names[k]] = 0 /\ outcome[full_names[k]] = "none"
            /\ entry = "get_repos_async" => results = <<>> /\ reqs[i] = 1

C5_Witness ==
    /\ entry = "main"
    /\ pc = "aborted"
    /\ error = "HTTPError500"
    /\ outcome[cur] = "500"
    /\ limited = 1
    /\ idx < Len(full_names)

\* C6: the ranked list is ordered by metric non-increasing, and results with
\* equal metric are in ascending order of identifier.
C6_TiesByIdentifier ==
    \A a, b \in 1..Len(repos) :
        a < b =>
            \/ repos[a].stars > repos[b].stars
            \/ repos[a].stars = repos[b].stars
               /\ repos[a].full_name < repos[b].full_name

C8_CachedFetchIssuesNoRequest ==
    [][/\ cache \subseteq cache'
       /\ \A i \in Ids :
            /\ (CacheHas(i) /\ runs' = runs) => reqs'[i] = reqs[i]
            /\ (CacheHas(i) /\ cur = i /\ fpc = "get" /\ Len(results') > Len(results)) =>
                  results'[Len(results')] = RepoScraped(i, CachePayload(i))
            /\ (outcome'[i] = "ok" /\ entry' = "main") => \E e \in cache' : e[1] = i]_vars

C8_Witness ==
    /\ runs >= 1
    /\ entry = "main"
    /\ cur \in Ids
    /\ outcome[cur] = "hit"
    /\ reqs[cur] = 0
    /\ Len(results) >= 1
    /\ results[Len(results)] = RepoScraped(cur, CachePayload(cur))

\* C9: when the awesome-list repository or its README is not found, the harvest
\* aborts with RepositoryNotFoundError / AwesomeReadmeNotFound: no identifier is
\* extracted, no fetch request is issued and no ranked output is produced.
C9_SourceMissingAborts ==
    /\ repoStatus = 404 => pc = "aborted" /\ error = "RepositoryNotFoundError"
    /\ readmeStatus = 404 => pc = "aborted" /\ error = "AwesomeReadmeNotFound"
    /\ (repoStatus = 404 \/ readmeStatus = 404) =>
          /\ full_names = <<>>
          /\ \A i \in Ids : reqs[i] = 0 /\ outcome[i] = "none"
          /\ inflight = {}
          /\ results = <<>>
          /\ repos = <<>>
          /\ printed = <<>>

C9_Witness ==
    /\ readmeStatus = 404
    /\ error = "AwesomeReadmeNotFound"
    /\ runs >= 1
    /\ cache # {}

\* C10: once get_repos_async has aborted on a fetch's error, no other fetch is
\* still in flight.
C10_InFlightCancelledOnAbort ==
    (entry = "get_repos_async" /\ pc = "aborted") => inflight = {}

====
